---- MODULE Spec2Model ----
(***************************************************************************)
(* Data-quality and drift-detection subsystem of the inference service:    *)
(*   model/data_quality.py  DataQualityChecker (schema, validator, drift   *)
(*                          detector, reference store)                     *)
(*   app/main.py            load_model (startup) and the /predict handler  *)
(*                                                                         *)
(* Numbers that are floats in the program are kept as integers: feature    *)
(* values in whole units, p-values and statistics in thousandths           *)
(* (0.05 is 50).                                                           *)
(***************************************************************************)
EXTENDS Integers, Sequences, FiniteSets, TLC

VARIABLES
    \* one call of detect_data_drift
    d_pc, d_ref, d_cur, d_lib, d_out,
    \* one call of validate_training_data / validate_inference_data
    v_pc, v_X, v_y, v_out,
    \* the reference store: a file system, one saver, one loader
    fs, dirs, s_pc, s_path, s_data, s_prev, l_pc, l_path, l_hdr, l_out, l_after,
    \* the inference service; drift_responses counts the responses sent with
    \* drift = true
    a_pc, a_env, model, ref_data, cd, dq_checker, drift_events, drift_responses,
    request_count, received, req, resp,
    \* one training run: train.main
    t_pc, t_X, t_out_dir, t_files, t_out

driftVars == <<d_pc, d_ref, d_cur, d_lib, d_out>>
validVars == <<v_pc, v_X, v_y, v_out>>
storeVars ==
    <<fs, dirs, s_pc, s_path, s_data, s_prev, l_pc, l_path, l_hdr, l_out, l_after>>
appVars ==
    <<a_pc, a_env, model, ref_data, cd, dq_checker, drift_events, drift_responses,
      request_count, received, req, resp>>
trainVars == <<t_pc, t_X, t_out_dir, t_files, t_out>>
vars == <<driftVars, validVars, storeVars, appVars, trainVars>>

----------------------------------------------------------------------------
(* Bounds of the model *)

\* widest reference / current batch handed to the drift detector
MaxCols == 2
\* most rows of a batch handed to the drift detector
MaxRows == 2
\* most /predict requests the service receives
MaxRequests == 2

----------------------------------------------------------------------------
(* numpy arrays.  An array is its shape (a sequence: <<n>> is one-dimensional, *)
(* <<n, d>> two-dimensional), its dtype, and its cells: every cell holds       *)
(* `fill` except the one at (odd.row, odd.col), which holds odd.val.           *)

Num(v) == [k |-> "num", v |-> v]
NaN    == [k |-> "nan", v |-> 0]
Str    == [k |-> "str", v |-> 0]
\* a Python list held as one cell of an object array (what a ragged batch becomes)
Lst    == [k |-> "list", v |-> 0]

Array(shape, dtype, fill, odd) ==
    [shape |-> shape, dtype |-> dtype, fill |-> fill, odd |-> odd]

NoOdd(fill) == [row |-> 0, col |-> 0, val |-> fill]

\* a placeholder where no array has been handed over yet
NoArray == Array(<<0>>, "float64", Num(0), NoOdd(Num(0)))

ndim(a) == Len(a.shape)

\* a.shape[1] of the program: raises IndexError on a one-dimensional array
HasShape1(a) == ndim(a) >= 2

\* a[:, i] of the program: IndexError unless a is two-dimensional with i < a.shape[1]
CanSliceColumn(a, i) == ndim(a) = 2 /\ i < a.shape[2]

\* len(a[:, i])
ColumnLen(a) == a.shape[1]

\* the first names f"feature_{i}" produces
FeatureNames ==
    <<"feature_0", "feature_1", "feature_2", "feature_3",
      "feature_4", "feature_5", "feature_6", "feature_7">>

FeatureName(i) == FeatureNames[i + 1]

----------------------------------------------------------------------------
(* scipy.stats as the detector sees it.  The library's numeric answers are an *)
(* input (lib): per column, what ks_2samp and anderson_ksamp answer when they *)
(* are handed two non-empty samples.  A column that is missing raises at the  *)
(* slice.  On an empty sample anderson_ksamp raises ValueError; ks_2samp      *)
(* raises ValueError in scipy up to 1.13 and returns nan, nan (with a         *)
(* SmallSampleWarning) from 1.14 on: lib.ks_empty_raises says which scipy is  *)
(* installed (the repository pins none).                                      *)

PVal(milli) == [nan |-> FALSE, milli |-> milli]
PNaN == [nan |-> TRUE, milli |-> 0]

\* Python's x < y on floats: False whenever x is nan
FloatLess(p, milli) == ~p.nan /\ p.milli < milli

KsRaise == [raises |-> TRUE, statistic |-> PNaN, pvalue |-> PNaN]
KsOk(stat, p) == [raises |-> FALSE, statistic |-> stat, pvalue |-> p]

AdRaise == [raises |-> TRUE, statistic |-> 0, critical |-> 0, significance |-> 0]
AdOk(stat, crit, sig) ==
    [raises |-> FALSE, statistic |-> stat, critical |-> crit, significance |-> sig]

\* stats.ks_2samp(reference_data[:, i], current_data[:, i])
ks_2samp(reference_data, current_data, i, lib) ==
    IF ~CanSliceColumn(reference_data, i) \/ ~CanSliceColumn(current_data, i)
    THEN KsRaise                       \* IndexError from the slice
    ELSE IF ColumnLen(reference_data) = 0 \/ ColumnLen(current_data) = 0
    THEN IF lib.ks_empty_raises
         THEN KsRaise                  \* ValueError: data must not be empty
         ELSE KsOk(PNaN, PNaN)
    ELSE lib.ks[i + 1]

\* stats.anderson_ksamp([reference_data[:, i], current_data[:, i]])
anderson_ksamp(reference_data, current_data, i, lib) ==
    IF ~CanSliceColumn(reference_data, i) \/ ~CanSliceColumn(current_data, i)
    THEN AdRaise
    ELSE IF ColumnLen(reference_data) = 0 \/ ColumnLen(current_data) = 0
    THEN AdRaise
    ELSE lib.ad[i + 1]

----------------------------------------------------------------------------
(* DataQualityChecker.detect_data_drift *)

\* Python's None, and a present value
None == << >>
Some(x) == <<x>>

\* the threshold of "if ks_pvalue < 0.05"
DriftAlpha == 50

KsFlagsDrift_inclusive(ks_pvalue) == ~ks_pvalue.nan /\ ks_pvalue.milli <= DriftAlpha

\* if ks_pvalue < 0.05
KsFlagsDrift(ks_pvalue) == FloatLess(ks_pvalue, DriftAlpha)

AdGuarded_propagate(ad) ==
    [raises |-> ad.raises,
     ad_statistic |-> IF ad.raises THEN None ELSE Some(ad.statistic),
     ad_critical |-> IF ad.raises THEN None ELSE Some(ad.critical),
     ad_significance |-> IF ad.raises THEN None ELSE Some(ad.significance)]

\* try: ad_stat, ad_critical, ad_significance = anderson_ksamp(...)
\* except: ad_stat, ad_critical, ad_significance = None, None, None
AdGuarded(ad) ==
    IF ad.raises
    THEN [raises |-> FALSE, ad_statistic |-> None, ad_critical |-> None,
          ad_significance |-> None]
    ELSE [raises |-> FALSE, ad_statistic |-> Some(ad.statistic),
          ad_critical |-> Some(ad.critical),
          ad_significance |-> Some(ad.significance)]

EmptyDetails == [x \in {} |-> 0]

DriftReturn(flag, details) ==
    [raised |-> FALSE, drift_detected |-> flag, drift_details |-> details]

DriftRaise == [raised |-> TRUE, drift_detected |-> FALSE, drift_details |-> EmptyDetails]

\* the body of the for loop, from feature i on; raised = an exception left the loop
RECURSIVE DriftLoop(_, _, _, _, _, _)
DriftLoop(reference_data, current_data, lib, i, drift_detected, drift_details) ==
    IF i >= reference_data.shape[2]
    THEN DriftReturn(drift_detected, drift_details)
    ELSE LET ks == ks_2samp(reference_data, current_data, i, lib)
             ad == AdGuarded(anderson_ksamp(reference_data, current_data, i, lib))
             entry == [ks_statistic |-> ks.statistic,
                       ks_pvalue |-> ks.pvalue,
                       ad_statistic |-> ad.ad_statistic,
                       ad_critical |-> ad.ad_critical,
                       ad_significance |-> ad.ad_significance]
             name == FeatureName(i)
             details == [x \in (DOMAIN drift_details) \cup {name} |->
                            IF x = name THEN entry ELSE drift_details[x]]
         IN  IF ks.raises \/ ad.raises
             THEN DriftRaise
             ELSE DriftLoop(reference_data, current_data, lib, i + 1,
                            drift_detected \/ KsFlagsDrift(ks.pvalue), details)

\* the try block: range(reference_data.shape[1]) raises on a 1-D reference
DriftTry(reference_data, current_data, lib) ==
    IF ~HasShape1(reference_data)
    THEN DriftRaise
    ELSE DriftLoop(reference_data, current_data, lib, 0, FALSE, EmptyDetails)

DriftCatch_reraise(r) == r

\* except Exception as e: return False, {}
DriftCatch(r) == IF r.raised THEN DriftReturn(FALSE, EmptyDetails) ELSE r

detect_data_drift(reference_data, current_data, lib) ==
    DriftCatch(DriftTry(reference_data, current_data, lib))

----------------------------------------------------------------------------
(* DataQualityChecker._create_expectation_suite and the two validators.      *)
(* great_expectations evaluates every expectation of the suite on the        *)
(* DataFrame; the result's success is the conjunction of their outcomes (an  *)
(* expectation that raises inside validate() counts as failed).              *)

\* range(4) of the per-column expectations, and the four names of column_list
FeatureCount == 4
\* expect_table_row_count_to_be_between
MinRowCount == 1
MaxRowCount == 10000
\* expect_column_values_to_be_between (min_value -10 is 0 - MaxValue)
MaxValue == 10
MinValue == 0 - MaxValue

Expectation(type, column, lo, hi, list) ==
    [expectation_type |-> type, column |-> column, min_value |-> lo,
     max_value |-> hi, column_list |-> list]

ColumnExpectations(i) ==
    << Expectation("expect_column_to_exist", FeatureName(i), 0, 0, <<>>),
       Expectation("expect_column_values_to_be_of_type", FeatureName(i), 0, 0, <<>>),
       Expectation("expect_column_values_to_not_be_null", FeatureName(i), 0, 0, <<>>),
       Expectation("expect_column_values_to_be_between", FeatureName(i),
                   MinValue, MaxValue, <<>>) >>

RECURSIVE ColumnSuite(_)
ColumnSuite(n) == IF n = 0 THEN <<>> ELSE ColumnSuite(n - 1) \o ColumnExpectations(n - 1)

create_expectation_suite ==
    << Expectation("expect_table_row_count_to_be_between", "", MinRowCount,
                   MaxRowCount, <<>>),
       Expectation("expect_table_columns_to_match_ordered_list", "", 0, 0,
                   [i \in 1..FeatureCount |-> FeatureName(i - 1)]) >>
    \o ColumnSuite(FeatureCount)

\* pd.DataFrame(X, columns=[f"feature_{i}" for i in range(X.shape[1])]), with the
\* target column when there is one: the column names in order, and the data
DataFrame(X, withTarget) ==
    [columns |-> [i \in 1..X.shape[2] |-> FeatureName(i - 1)]
                    \o (IF withTarget THEN <<"target">> ELSE <<>>),
     X |-> X]

\* the cells of column c (0-based) of X
ColumnCells(X, c) ==
    IF X.shape[1] = 0 THEN {}
    ELSE IF X.odd.col = c /\ X.odd.row < X.shape[1]
    THEN {X.odd.val} \cup (IF X.shape[1] > 1 THEN {X.fill} ELSE {})
    ELSE {X.fill}

\* the 0-based index of the feature column called `name`; -1 when df has none
FeatureIndex(df, name) ==
    IF \E i \in 1..df.X.shape[2] : FeatureName(i - 1) = name
    THEN (CHOOSE i \in 1..df.X.shape[2] : FeatureName(i - 1) = name) - 1
    ELSE 0 - 1

\* the outcome of one expectation on df
Expect(df, e) ==
    LET c == FeatureIndex(df, e.column)
        cells == ColumnCells(df.X, c)
    IN  CASE e.expectation_type = "expect_table_row_count_to_be_between" ->
               e.min_value <= df.X.shape[1] /\ df.X.shape[1] <= e.max_value
          [] e.expectation_type = "expect_table_columns_to_match_ordered_list" ->
               df.columns = e.column_list
          [] e.expectation_type = "expect_column_to_exist" ->
               c >= 0
          [] e.expectation_type = "expect_column_values_to_be_of_type" ->
               c >= 0 /\ df.X.dtype = "float64"
          [] e.expectation_type = "expect_column_values_to_not_be_null" ->
               c >= 0 /\ \A x \in cells : x.k # "nan"
          [] e.expectation_type = "expect_column_values_to_be_between" ->
               c >= 0 /\ \A x \in cells :
                   \/ x.k = "nan"
                   \/ x.k = "num" /\ e.min_value <= x.v /\ x.v <= e.max_value

\* dataset.validate().success
ValidateSuccess(df, suite) == \A k \in 1..Len(suite) : Expect(df, suite[k])

\* the try block of validate_training_data: "raised", or the value returned
TrainingTry(X, y) ==
    IF ~HasShape1(X) THEN "raised"                  \* X.shape[1]
    ELSE IF y # None /\ y[1] # X.shape[1] THEN "raised"   \* df["target"] = y
    ELSE IF ValidateSuccess(DataFrame(X, TRUE), create_expectation_suite)
    THEN "True" ELSE "False"

\* the try block of validate_inference_data
InferenceTry(X) ==
    IF ~HasShape1(X) THEN "raised"
    ELSE IF ValidateSuccess(DataFrame(X, FALSE), create_expectation_suite)
    THEN "True" ELSE "False"

\* except Exception as e: return False   (validate_training_data)
TrainingCatch(r) == IF r = "raised" THEN "False" ELSE r

InferenceCatch_reraise(r) == r

\* except Exception as e: return False   (validate_inference_data)
InferenceCatch(r) == IF r = "raised" THEN "False" ELSE r

validate_training_data(X, y) == TrainingCatch(TrainingTry(X, y))

validate_inference_data(X) == InferenceCatch(InferenceTry(X))

----------------------------------------------------------------------------
(* The reference store: save_reference_data and load_reference_data over a   *)
(* file system.  A path is its directory components and the parts of its     *)
(* file name (<<"reference_data", ".npy">>); a file is the array being       *)
(* written, whether its header is on disk, and how many rows are.            *)

Path(dir, file) == [dir |-> dir, file |-> file]

\* os.path.dirname(path); the empty sequence is ""
dirname(path) == path.dir

\* file.endswith('.npy')
EndsWithNpy(path) == Len(path.file) > 0 /\ path.file[Len(path.file)] = ".npy"

\* np.save: "if not file.endswith('.npy'): file = file + '.npy'"
NpySaveTarget(path) ==
    IF EndsWithNpy(path) THEN path ELSE Path(path.dir, path.file \o <<".npy">>)

\* the directories os.makedirs(d, exist_ok=True) makes exist
Prefixes(d) == {SubSeq(d, 1, k) : k \in 1..Len(d)}

\* os.makedirs("") raises FileNotFoundError
MakedirsRaises(d) == d = <<>>

FileContent(array, header, rows) == [array |-> array, header |-> header, rows |-> rows]

\* a file np.save has written and closed
CompleteFile(array) == FileContent(array, TRUE, array.shape[1])

\* bytes that are no .npy file
CorruptFile == FileContent(NoArray, FALSE, 0)

Items(shape) == shape[1] * shape[2]

\* what a torn read yields when the bytes are of another dtype
Garbage == [k |-> "garbage", v |-> 0]

\* np.load, first part: read the magic string and the header.  "raise" when the
\* file has none yet, or holds an object array (allow_pickle=False)
NpLoadHeaderRaises(content) == ~content.header \/ content.array.dtype = "object"

\* np.load, second part: read the Items(hdr.shape) values that follow the header
\* from what the file holds now; short data raises
NpLoadDataRaises(hdr, content) ==
    Items(hdr.shape) > (IF content.header THEN content.rows * content.array.shape[2] ELSE 0)

NpLoadData(hdr, content) ==
    LET cell == IF content.array.dtype = hdr.dtype THEN content.array.fill ELSE Garbage
    IN  Array(hdr.shape, hdr.dtype, cell, NoOdd(cell))

\* load_reference_data(path) run without interruption on the files `files`
load_reference_data(files, path) ==
    IF path \notin DOMAIN files THEN None           \* not os.path.exists(path)
    ELSE IF NpLoadHeaderRaises(files[path]) THEN None
    ELSE IF NpLoadDataRaises(files[path].array, files[path]) THEN None
    ELSE Some(NpLoadData(files[path].array, files[path]))

----------------------------------------------------------------------------
(* app/main.py: the module globals, load_model (startup) and /predict.       *)
(* env is the process environment and the files it finds: DRIFT_ENABLED,     *)
(* DRIFT_WEBHOOK, whether MODEL_PATH can be unpickled, the files beside it,   *)
(* and what the installed numpy does with a ragged list.                      *)

\* os.path.join(os.path.dirname(MODEL_PATH), "reference_data.npy")
ref_data_path == Path(<<"model">>, <<"reference_data", ".npy">>)

\* rows of the fallback sample: np.random.normal(0, 1, size=(200, n))
FallbackRows == 200

\* np.random.seed(0); np.random.normal(0, 1, size=(200, n_features_in_))
SyntheticReference(n) == Array(<<FallbackRows, n>>, "float64", Num(0), NoOdd(Num(0)))

\* MMDDrift(ref_data, p_val=0.05): cannot be built on None
MMDDriftRaises(x_ref) == x_ref = None

MMDDrift(x_ref) == Some([x_ref |-> x_ref[1], p_val |-> DriftAlpha])

\* np.array(req.data): a table, [] (a one-dimensional empty array), or a ragged
\* list, which numpy refuses (ValueError) or turns into a 1-D object array
np_array(data, env) ==
    CASE data.kind = "table" -> Some(data.array)
      [] data.kind = "empty" -> Some(Array(<<0>>, "float64", Num(0), NoOdd(Num(0))))
      [] data.kind = "ragged" ->
            IF env.numpy_refuses_ragged THEN None
            ELSE Some(Array(<<data.array.shape[1]>>, "object", Lst, NoOdd(Lst)))

HasNaN(X) == \E c \in 0..(X.shape[2] - 1) : NaN \in ColumnCells(X, c)

\* model.predict(X) of the pickled classifier: None when it raises (X is not a
\* finite two-dimensional table of n_features_in_ columns with a row), else one
\* label per row
model_predict(m, X, label) ==
    IF \/ ndim(X) # 2
       \/ X.dtype = "object"
       \/ X.shape[1] = 0
       \/ X.shape[2] # m.n_features_in_
       \/ HasNaN(X)
    THEN None
    ELSE Some([i \in 1..X.shape[1] |-> label])

\* cd.predict(X)["data"]["is_drift"]: None when the detector raises (X cannot be
\* stacked on the reference), else the detector's answer
cd_predict(detector, X, is_drift) ==
    IF ndim(X) # 2 \/ X.shape[1] = 0 \/ X.shape[2] # detector.x_ref.shape[2]
    THEN None
    ELSE Some(is_drift)

\* what the handler leaves behind: the HTTP response (status, predictions,
\* drift), the validator's answer and whether a warning was logged, whether
\* model.predict was called and on what, the increments of DRIFT_EVENTS and
\* REQUEST_COUNT, and the webhook tasks queued
Outcome(status, predictions, drift, quality, warned, predicted_on, events, c200, c500, tasks) ==
    [status |-> status, predictions |-> predictions, drift |-> drift,
     quality |-> quality, warned |-> warned, predicted_on |-> predicted_on,
     events |-> events, count200 |-> c200, count500 |-> c500, tasks |-> tasks]

QualityGate_strict(checker, quality) ==
    [warned |-> checker /\ quality = "False",
     proceed |-> ~(checker /\ quality = "False")]

\* if dq_checker and not dq_checker.validate_inference_data(X):
\*     log.warning(...)   # Continue with prediction but log the issue
QualityGate(checker, quality) ==
    [warned |-> checker /\ quality = "False", proceed |-> TRUE]

\* the handler from the validator's answer on
PredictBody(X, quality, o, g, env) ==
    LET gate == QualityGate(g.dq_checker, quality)
        y_pred == model_predict(g.model[1], X, o.label)
        use_cd == env.DRIFT_ENABLED /\ g.cd # None
        mmd == IF use_cd THEN cd_predict(g.cd[1], X, o.is_drift) ELSE Some(0)
        mmd_flag == use_cd /\ mmd # None /\ mmd[1] # 0
        use_stat == g.ref_data # None /\ g.dq_checker
        stat == IF use_stat THEN detect_data_drift(g.ref_data[1], X, o.lib)
                ELSE DriftReturn(FALSE, EmptyDetails)
        events == (IF mmd_flag THEN 1 ELSE 0) + (IF stat.drift_detected THEN 1 ELSE 0)
        tasks == IF mmd_flag /\ env.DRIFT_WEBHOOK THEN 1 ELSE 0
    IN  IF ~gate.proceed \/ y_pred = None
        THEN \* except Exception: REQUEST_COUNT 500, HTTPException(500)
             Outcome(500, None, FALSE, quality, gate.warned,
                     IF gate.proceed THEN Some(X) ELSE None, 0, 0, 1, 0)
        ELSE IF mmd = None
        THEN \* cd.predict raises outside any try: the server answers 500
             Outcome(500, None, FALSE, quality, gate.warned, Some(X), 0, 0, 0, 0)
        ELSE Outcome(200, y_pred, mmd_flag \/ stat.drift_detected, quality,
                     gate.warned, Some(X), events, 1, 0, tasks)

\* async def predict(req, background_tasks, request)
predict(data, o, g, env) ==
    LET X == np_array(data, env) IN
    IF X = None
    THEN Outcome(500, None, FALSE, "skipped", FALSE, None, 0, 0, 1, 0)
    ELSE PredictBody(X[1],
                     IF g.dq_checker THEN validate_inference_data(X[1]) ELSE "skipped",
                     o, g, env)

----------------------------------------------------------------------------
(* One call of detect_data_drift on inputs drawn at the start *)

DriftShapes ==
    {<<n>> : n \in 0..MaxRows} \cup {<<n, d>> : n \in 0..MaxRows, d \in 0..MaxCols}

DriftArrays == {Array(s, "float64", Num(0), NoOdd(Num(0))) : s \in DriftShapes}

KsAnswers ==
    {KsRaise, KsOk(PVal(120), PVal(49)), KsOk(PVal(110), PVal(50)), KsOk(PNaN, PNaN)}

AdAnswers == {AdRaise, AdOk(700, 1961, 250)}

DriftLibs ==
    [ks : [1..MaxCols -> KsAnswers], ad : [1..MaxCols -> AdAnswers],
     ks_empty_raises : BOOLEAN]

NoLib == [ks |-> <<>>, ad |-> <<>>, ks_empty_raises |-> TRUE]

DriftIdle ==
    /\ d_pc = "off"
    /\ d_ref = NoArray
    /\ d_cur = NoArray
    /\ d_lib = NoLib
    /\ d_out = DriftRaise

DriftInit ==
    /\ d_pc = "call"
    /\ d_ref \in DriftArrays
    /\ d_cur \in DriftArrays
    /\ d_lib \in DriftLibs
    /\ d_out = DriftRaise

\* checker.detect_data_drift(reference_data, current_data)
DetectDataDrift ==
    /\ d_pc = "call"
    /\ d_out' = detect_data_drift(d_ref, d_cur, d_lib)
    /\ d_pc' = "done"
    /\ UNCHANGED <<d_ref, d_cur, d_lib>>

----------------------------------------------------------------------------
(* The parts of the state a specification does not use stay as they are *)

ValidIdle ==
    /\ v_pc = "off"
    /\ v_X = NoArray
    /\ v_y = None
    /\ v_out = "none"

StoreIdle ==
    /\ fs = [x \in {} |-> 0]
    /\ dirs = {}
    /\ s_pc = "off"
    /\ s_path = None
    /\ s_data = NoArray
    /\ s_prev = None
    /\ l_pc = "off"
    /\ l_path = None
    /\ l_hdr = None
    /\ l_out = None
    /\ l_after = FALSE

AppIdle ==
    /\ a_pc = "off"
    /\ a_env = None
    /\ model = None
    /\ ref_data = None
    /\ cd = None
    /\ dq_checker = FALSE
    /\ drift_events = 0
    /\ drift_responses = 0
    /\ request_count = [code \in {200, 500} |-> 0]
    /\ received = 0
    /\ req = None
    /\ resp = None

----------------------------------------------------------------------------
(* model/train.py: main, one training run.  The files of OUT_DIR are a       *)
(* function from paths to what they hold; a run leaves behind what it        *)
(* returned, the names of the files it wrote in the order it wrote them, and *)
(* the files.                                                                *)

\* make_classification(n_samples=2000, n_features=4, random_state=42)
TrainSamples == 2000
TrainFeatures == 4

\* os.path.join(OUT_DIR, name)
ModelFile(out_dir) == Path(out_dir, <<"model", ".pkl">>)
VersionFile(out_dir) == Path(out_dir, <<"model_version", ".txt">>)
MetricsFile(out_dir) == Path(out_dir, <<"training_metrics", ".json">>)

\* REFERENCE_DATA_PATH = os.path.join(OUT_DIR, "reference_data.npy")
REFERENCE_DATA_PATH(out_dir) == Path(out_dir, <<"reference_data", ".npy">>)

\* what open(path, "w") ... write leaves in a file of the given kind
Written(kind) == [array |-> NoArray, header |-> FALSE, rows |-> 0, kind |-> kind]

\* what np.save leaves in a file
WrittenNpy(array) ==
    [array |-> array, header |-> TRUE, rows |-> array.shape[1], kind |-> "npy"]

WriteFile(files, path, content) ==
    [p \in DOMAIN files \cup {path} |-> IF p = path THEN content ELSE files[p]]

\* X_train of train_test_split(X, y, test_size=0.2): four rows in five
train_test_split(X) ==
    LET n == X.shape[1] - (X.shape[1] \div 5)
        odd == IF X.odd.row < n THEN X.odd
               ELSE [row |-> 0, col |-> 0, val |-> X.fill]
    IN  Array(<<n, X.shape[2]>>, X.dtype, X.fill, odd)

\* save_reference_data(data, path), run without interruption: the files after
\* it (an exception of makedirs is logged and nothing is written)
save_reference_data(files, data, path) ==
    IF MakedirsRaises(dirname(path)) THEN files
    ELSE WriteFile(files, NpySaveTarget(path), WrittenNpy(data))

TrainRun(returned, writes, files) ==
    [returned |-> returned, writes |-> writes, files |-> files]

AbortsTraining_never(quality) == FALSE

\* if not dq_checker.validate_training_data(X, y): ... return False
AbortsTraining(quality) == quality # "True"

\* main from the validator's answer on
MainFrom(quality, X, out_dir, files) ==
    IF AbortsTraining(quality) THEN TrainRun("False", <<>>, files)
    ELSE LET X_train == train_test_split(X)
             f1 == WriteFile(files, ModelFile(out_dir), Written("pickle"))
             f2 == WriteFile(f1, VersionFile(out_dir), Written("version"))
             f3 == save_reference_data(f2, X_train, REFERENCE_DATA_PATH(out_dir))
             f4 == WriteFile(f3, MetricsFile(out_dir), Written("metrics"))
         IN  TrainRun("True",
                      <<ModelFile(out_dir), VersionFile(out_dir)>>
                          \o (IF MakedirsRaises(dirname(REFERENCE_DATA_PATH(out_dir)))
                              THEN <<>>
                              ELSE <<NpySaveTarget(REFERENCE_DATA_PATH(out_dir))>>)
                          \o <<MetricsFile(out_dir)>>,
                      f4)

\* def main()
main(X, y, out_dir, files) ==
    MainFrom(validate_training_data(X, y), X, out_dir, files)

TrainIdle ==
    /\ t_pc = "off"
    /\ t_X = NoArray
    /\ t_out_dir = None
    /\ t_files = [x \in {} |-> 0]
    /\ t_out = TrainRun("none", <<>>, [x \in {} |-> 0])

----------------------------------------------------------------------------
(* Specification of the drift detector: every call of detect_data_drift *)

InitDrift == DriftInit /\ ValidIdle /\ StoreIdle /\ AppIdle /\ TrainIdle

NextDrift == DetectDataDrift /\ UNCHANGED <<validVars, storeVars, appVars, trainVars>>

SpecDrift == InitDrift /\ [][NextDrift]_vars

\* the call is on two-dimensional batches of the same width
SameWidth == ndim(d_ref) = 2 /\ ndim(d_cur) = 2 /\ d_ref.shape[2] = d_cur.shape[2]

\* both batches have rows, and the library answers the KS test of every column
\* of the reference
EveryKsComputable ==
    /\ ndim(d_ref) = 2 /\ ndim(d_cur) = 2
    /\ d_ref.shape[2] <= d_cur.shape[2]
    /\ d_ref.shape[1] > 0 /\ d_cur.shape[1] > 0
    /\ \A i \in 1..d_ref.shape[2] : ~d_lib.ks[i].raises

WidthMismatch ==
    /\ ndim(d_ref) = 2 /\ ndim(d_cur) = 2 /\ d_ref.shape[2] # d_cur.shape[2]
    /\ d_ref.shape[1] > 0 /\ d_cur.shape[1] > 0

\* C2: on a width mismatch (both batches with rows) the result is a distinct error: it is not the
\* (False, {}) of a no-drift or empty-input call, and it is not a normal verdict
\* over some of the columns.
C2_MismatchIsDistinctError ==
    (d_pc = "done" /\ WidthMismatch) =>
        /\ ~(~d_out.raised /\ ~d_out.drift_detected /\ DOMAIN d_out.drift_details = {})
        /\ ~(~d_out.raised /\ DOMAIN d_out.drift_details # {})

ZeroRows == d_ref.shape[1] = 0 \/ d_cur.shape[1] = 0

\* C3: when the reference or the current batch has zero rows the call returns
\* drift_detected = False with an empty per-feature map, and raises nothing.
C3_EmptyInputIsNoDrift ==
    (d_pc = "done" /\ ZeroRows) =>
        /\ ~d_out.raised
        /\ ~d_out.drift_detected
        /\ DOMAIN d_out.drift_details = {}

\* the same, where the installed ks_2samp raises on an empty sample
EmptyInputIsNoDriftWhereKsRaises ==
    (d_pc = "done" /\ ZeroRows /\ d_lib.ks_empty_raises) =>
        /\ ~d_out.raised
        /\ ~d_out.drift_detected
        /\ DOMAIN d_out.drift_details = {}

\* with zero rows nothing is raised and no drift is reported, whichever scipy
EmptyInputNeverRaisesNorDrifts ==
    (d_pc = "done" /\ ZeroRows) => ~d_out.raised /\ ~d_out.drift_detected

\* C4: when the Anderson-Darling test of feature i cannot be computed (and the
\* KS tests can), feature i gets None for its three Anderson-Darling outputs and
\* keeps its KS statistic and p-value; every feature of the reference is in the
\* map, a feature whose Anderson-Darling test answers keeps those answers, the
\* verdict still counts feature i's KS p-value, and the call returns.
C4_AdFailureIsLocal ==
    (d_pc = "done" /\ EveryKsComputable) =>
        /\ ~d_out.raised
        /\ DOMAIN d_out.drift_details = {FeatureName(j - 1) : j \in 1..d_ref.shape[2]}
        /\ \A i \in 1..d_ref.shape[2] :
              LET e == d_out.drift_details[FeatureName(i - 1)] IN
              /\ e.ks_statistic = d_lib.ks[i].statistic
              /\ e.ks_pvalue = d_lib.ks[i].pvalue
              /\ d_lib.ad[i].raises =>
                    /\ e.ad_statistic = None
                    /\ e.ad_critical = None
                    /\ e.ad_significance = None
              /\ ~d_lib.ad[i].raises =>
                    /\ e.ad_statistic = Some(d_lib.ad[i].statistic)
                    /\ e.ad_critical = Some(d_lib.ad[i].critical)
                    /\ e.ad_significance = Some(d_lib.ad[i].significance)
              /\ (~e.ks_pvalue.nan /\ e.ks_pvalue.milli < 50) => d_out.drift_detected

\* the Anderson-Darling test fails on feature_0 alone, whose KS p-value flags drift
C4_Witness ==
    /\ d_pc = "done" /\ EveryKsComputable
    /\ d_ref.shape[2] = 2
    /\ d_lib.ad[1].raises /\ ~d_lib.ad[2].raises
    /\ d_lib.ks[1].pvalue = PVal(49)
    /\ d_lib.ks[2].pvalue = PVal(50)
    /\ d_out.drift_details[FeatureName(0)].ad_statistic = None
    /\ d_out.drift_details[FeatureName(1)].ad_statistic # None
    /\ d_out.drift_detected

\* the KS test answers a p-value of exactly 0.05 for every feature (as the
\* mocked ks_2samp of test_detect_data_drift does), on a reference with columns
EveryKsAtAlpha ==
    /\ d_pc = "done" /\ SameWidth /\ EveryKsComputable
    /\ d_ref.shape[2] >= 1
    /\ \A i \in 1..d_ref.shape[2] : d_lib.ks[i].pvalue = PVal(50)

----------------------------------------------------------------------------
(* Specification of the validators: one call of validate_training_data or    *)
(* validate_inference_data on a batch drawn at the start                     *)

ValidRowCounts == {0, 1, 2, MaxRowCount, MaxRowCount + 1}
ValidWidths == {0, FeatureCount - 1, FeatureCount, FeatureCount + 1}
ValidFills == {Num(0), Num(MaxValue), Num(MinValue)}

ValidOddVals(dtype) ==
    {Num(MaxValue + 1), Num(MinValue - 1), Num(15)}
        \cup (IF dtype = "float64" THEN {NaN} ELSE {})
        \cup (IF dtype = "object" THEN {NaN, Str, Lst} ELSE {})

ValidTables ==
    {Array(<<n, d>>, dtype, fill, [row |-> r, col |-> c, val |-> val]) :
        n \in ValidRowCounts, d \in ValidWidths, fill \in ValidFills,
        r \in {0, 1}, c \in {0, FeatureCount - 1},
        <<dtype, val>> \in UNION {{<<dt, x>> : x \in ValidOddVals(dt) \cup ValidFills} :
                                     dt \in {"float64", "int64", "object"}}}

\* one-dimensional inputs: a flat vector, an empty array, a ragged batch
ValidVectors ==
    {Array(<<2>>, "float64", Num(0), NoOdd(Num(0))),
     Array(<<0>>, "float64", Num(0), NoOdd(Num(0))),
     Array(<<2>>, "object", Lst, NoOdd(Lst))}

ValidInit ==
    /\ v_pc = "call"
    /\ v_X \in ValidTables \cup ValidVectors
    /\ v_y \in {None, Some(v_X.shape[1]), Some(v_X.shape[1] + 1)}
    /\ v_out = "none"

\* dq_checker.validate_training_data(X, y)
ValidateTraining ==
    /\ v_pc = "call"
    /\ v_y # None
    /\ v_out' = validate_training_data(v_X, v_y)
    /\ v_pc' = "done"
    /\ UNCHANGED <<v_X, v_y>>

\* dq_checker.validate_inference_data(X)
ValidateInference ==
    /\ v_pc = "call"
    /\ v_y = None
    /\ v_out' = validate_inference_data(v_X)
    /\ v_pc' = "done"
    /\ UNCHANGED <<v_X, v_y>>

InitValid == ValidInit /\ DriftIdle /\ StoreIdle /\ AppIdle /\ TrainIdle

NextValid ==
    \/ ValidateTraining /\ UNCHANGED <<driftVars, storeVars, appVars, trainVars>>
    \/ ValidateInference /\ UNCHANGED <<driftVars, storeVars, appVars, trainVars>>

SpecValid == InitValid /\ [][NextValid]_vars

\* 4 float columns, 1 to 10000 rows, no nulls, every value in [-10, 10]
GoodBatch(X) ==
    /\ ndim(X) = 2 /\ X.shape[2] = 4 /\ X.dtype = "float64"
    /\ 1 <= X.shape[1] /\ X.shape[1] <= 10000
    /\ \A c \in 0..3 : \A x \in ColumnCells(X, c) :
           x.k = "num" /\ 0 - 10 <= x.v /\ x.v <= 10

\* C5: validate_training_data(X, y) returns True for every batch of 4 float
\* columns with 1 to 10000 rows, no nulls and all values in [-10, 10] (y of
\* matching length): the target column is ignored by every constraint.
C5_GoodTrainingBatchPasses ==
    (v_pc = "done" /\ v_y = Some(v_X.shape[1]) /\ GoodBatch(v_X)) => v_out = "True"

\* the same batch without the target column passes (validate_inference_data)
GoodInferenceBatchPasses ==
    (v_pc = "done" /\ v_y = None /\ GoodBatch(v_X)) => v_out = "True"

\* the batch is no rectangular numeric table of the expected width
NotATable(X) ==
    \/ ndim(X) # 2
    \/ X.shape[2] # 4
    \/ X.dtype = "object"
    \/ \E c \in 0..3 : \E x \in ColumnCells(X, c) : x.k \in {"str", "list"}

\* C6: both validators return a value for every input (nothing is raised to
\* the caller), and the value is False whenever the batch is not a rectangular
\* numeric table of the expected width.
C6_ValidatorsFailClosed ==
    v_pc = "done" =>
        /\ v_out \in {"True", "False"}
        /\ NotATable(v_X) => v_out = "False"

\* a ragged inference batch (a one-dimensional object array) is answered False
C6_Witness ==
    /\ v_pc = "done"
    /\ v_y = None
    /\ ndim(v_X) = 1 /\ v_X.dtype = "object"
    /\ v_out = "False"

----------------------------------------------------------------------------
(* Specification of the reference store: one save_reference_data(data, path) *)
(* and one load_reference_data(path) on the same path, each advancing one    *)
(* file-system operation at a time                                           *)

StorePaths ==
    {Path(<<"model">>, <<"reference_data", ".npy">>),
     Path(<<"out", "model">>, <<"reference_data", ".npy">>),
     Path(<<>>, <<"reference_data", ".npy">>),
     Path(<<"model">>, <<"reference_data">>)}

\* the sample stored by an earlier run, and the samples a run saves
OldSample == Array(<<1, MaxCols>>, "float64", Num(1), NoOdd(Num(1)))

NewSamples ==
    {Array(<<1, MaxCols>>, "float64", Num(2), NoOdd(Num(2))),
     Array(<<MaxRows, MaxCols>>, "float64", Num(2), NoOdd(Num(2))),
     Array(<<1, MaxCols>>, "object", Str, NoOdd(Str))}

StoreInit ==
    /\ dirs = {<<"model">>}
    /\ s_path \in StorePaths
    /\ s_prev \in {None} \cup
           (IF dirname(s_path) = <<>> \/ dirname(s_path) \in dirs
            THEN {Some(OldSample)} ELSE {})
    /\ fs = IF s_prev = None THEN [x \in {} |-> 0]
            ELSE [x \in {s_path} |-> CompleteFile(OldSample)]
    /\ s_data \in NewSamples
    /\ s_pc = "makedirs"
    /\ l_pc = "exists"
    /\ l_path = s_path
    /\ l_hdr = None
    /\ l_out = None
    /\ l_after = FALSE

\* os.makedirs(os.path.dirname(path), exist_ok=True); an exception goes to
\* "except Exception as e: log.error(...)" and the save is over
SaveMakedirs ==
    /\ s_pc = "makedirs"
    /\ IF MakedirsRaises(dirname(s_path))
       THEN s_pc' = "failed" /\ UNCHANGED dirs
       ELSE s_pc' = "open" /\ dirs' = dirs \cup Prefixes(dirname(s_path))
    /\ UNCHANGED <<fs, s_path, s_data, s_prev, l_pc, l_path, l_hdr, l_out, l_after>>

\* np.save: open(file, "wb") creates the file or truncates it
SaveOpen ==
    /\ s_pc = "open"
    /\ fs' = [x \in (DOMAIN fs) \cup {NpySaveTarget(s_path)} |->
                 IF x = NpySaveTarget(s_path) THEN FileContent(s_data, FALSE, 0)
                 ELSE fs[x]]
    /\ s_pc' = "header"
    /\ UNCHANGED <<dirs, s_path, s_data, s_prev, l_pc, l_path, l_hdr, l_out, l_after>>

\* np.save: format.write_array writes the header
SaveHeader ==
    /\ s_pc = "header"
    /\ fs' = [fs EXCEPT ![NpySaveTarget(s_path)].header = TRUE]
    /\ s_pc' = IF s_data.shape[1] = 0 THEN "close" ELSE "data"
    /\ UNCHANGED <<dirs, s_path, s_data, s_prev, l_pc, l_path, l_hdr, l_out, l_after>>

\* np.save: format.write_array writes the data, a row reaching the disk at a time
SaveData ==
    /\ s_pc = "data"
    /\ fs' = [fs EXCEPT ![NpySaveTarget(s_path)].rows = @ + 1]
    /\ s_pc' = IF fs[NpySaveTarget(s_path)].rows + 1 = s_data.shape[1]
               THEN "close" ELSE "data"
    /\ UNCHANGED <<dirs, s_path, s_data, s_prev, l_pc, l_path, l_hdr, l_out, l_after>>

\* np.save: the file is closed; log.info("Reference data saved ...")
SaveClose ==
    /\ s_pc = "close"
    /\ s_pc' = "done"
    /\ UNCHANGED <<fs, dirs, s_path, s_data, s_prev, l_pc, l_path, l_hdr, l_out, l_after>>

\* if os.path.exists(path): ... else: return None
LoadExists ==
    /\ l_pc = "exists"
    /\ l_after' = (s_pc \in {"done", "failed"})
    /\ IF l_path \in DOMAIN fs
       THEN l_pc' = "header" /\ UNCHANGED l_out
       ELSE l_pc' = "done" /\ l_out' = None
    /\ UNCHANGED <<fs, dirs, s_pc, s_path, s_data, s_prev, l_path, l_hdr>>

\* np.load(path): open the file, read magic and header; an exception goes to
\* "except Exception as e: ... return None"
LoadHeader ==
    /\ l_pc = "header"
    /\ IF NpLoadHeaderRaises(fs[l_path])
       THEN l_pc' = "done" /\ l_out' = None /\ UNCHANGED l_hdr
       ELSE l_pc' = "data" /\ l_hdr' = Some(fs[l_path].array) /\ UNCHANGED l_out
    /\ UNCHANGED <<fs, dirs, s_pc, s_path, s_data, s_prev, l_path, l_after>>

\* np.load(path): read the data; return data
LoadData ==
    /\ l_pc = "data"
    /\ l_out' = IF NpLoadDataRaises(l_hdr[1], fs[l_path]) THEN None
                ELSE Some(NpLoadData(l_hdr[1], fs[l_path]))
    /\ l_pc' = "done"
    /\ UNCHANGED <<fs, dirs, s_pc, s_path, s_data, s_prev, l_path, l_hdr, l_after>>

InitStore == StoreInit /\ DriftIdle /\ ValidIdle /\ AppIdle /\ TrainIdle

NextStore ==
    \/ SaveMakedirs /\ UNCHANGED <<driftVars, validVars, appVars, trainVars>>
    \/ SaveOpen /\ UNCHANGED <<driftVars, validVars, appVars, trainVars>>
    \/ SaveHeader /\ UNCHANGED <<driftVars, validVars, appVars, trainVars>>
    \/ SaveData /\ UNCHANGED <<driftVars, validVars, appVars, trainVars>>
    \/ SaveClose /\ UNCHANGED <<driftVars, validVars, appVars, trainVars>>
    \/ LoadExists /\ UNCHANGED <<driftVars, validVars, appVars, trainVars>>
    \/ LoadHeader /\ UNCHANGED <<driftVars, validVars, appVars, trainVars>>
    \/ LoadData /\ UNCHANGED <<driftVars, validVars, appVars, trainVars>>

SpecStore == InitStore /\ [][NextStore]_vars

\* C9: whatever the path, a load_reference_data(path) that starts after
\* save_reference_data(X, path) has returned yields an array equal to X, of
\* the same shape, never None.
C9_SaveThenLoadRoundTrips ==
    (l_pc = "done" /\ l_after) => l_out = Some(s_data)

\* the round trip on the path the training script uses, for a float sample
C9_RoundTripOnModelDirNpy ==
    (/\ l_pc = "done" /\ l_after
     /\ dirname(s_path) # <<>> /\ EndsWithNpy(s_path) /\ s_data.dtype = "float64")
        => l_out = Some(s_data)

\* the path has a directory part and the .npy suffix, the samples are float
PlainSave ==
    dirname(s_path) # <<>> /\ EndsWithNpy(s_path) /\ s_data.dtype = "float64"

\* C10: a load running while a save to the same path is under way returns the
\* whole sample stored before or the whole new sample: never other content,
\* and never None when a sample was stored before the save began.
C10_SaveIsAtomicReplace ==
    (l_pc = "done" /\ PlainSave) =>
        /\ l_out \in {None, s_prev, Some(s_data)}
        /\ s_prev # None => l_out # None

----------------------------------------------------------------------------
(* Specification of the inference service: startup, then /predict requests   *)

\* the sample a training run stored beside the model
StoredReference == Array(<<MaxRows, FeatureCount>>, "float64", Num(1), NoOdd(Num(1)))

\* a sample stored for another model: one column fewer than the model in
\* MODEL_PATH was trained on
OtherModelReference ==
    Array(<<MaxRows, FeatureCount - 1>>, "float64", Num(1), NoOdd(Num(1)))

AppFiles ==
    {[x \in {} |-> 0],
     [x \in {ref_data_path} |-> CompleteFile(StoredReference)],
     [x \in {ref_data_path} |-> CompleteFile(OtherModelReference)],
     [x \in {ref_data_path} |-> CorruptFile]}

AppEnvs ==
    [DRIFT_ENABLED : BOOLEAN, DRIFT_WEBHOOK : BOOLEAN, model_loads : BOOLEAN,
     files : AppFiles, numpy_refuses_ragged : BOOLEAN, ks_empty_raises : BOOLEAN]

AppInit ==
    /\ a_pc = "startup"
    /\ a_env \in AppEnvs
    /\ model = None
    /\ ref_data = None
    /\ cd = None
    /\ dq_checker = FALSE
    /\ drift_events = 0
    /\ drift_responses = 0
    /\ request_count = [code \in {200, 500} |-> 0]
    /\ received = 0
    /\ req = None
    /\ resp = None

\* ref_data as load_model leaves it
StartupReference(env, m) ==
    IF ref_data_path \in DOMAIN env.files           \* os.path.exists(ref_data_path)
    THEN load_reference_data(env.files, ref_data_path)
    ELSE Some(SyntheticReference(m.n_features_in_))

\* @app.on_event("startup") def load_model()
LoadModel ==
    /\ a_pc = "startup"
    /\ IF ~a_env.model_loads
       THEN \* open(MODEL_PATH) / pickle.load raises: the service does not start
            /\ a_pc' = "failed"
            /\ UNCHANGED <<model, ref_data, cd, dq_checker>>
       ELSE LET m == [n_features_in_ |-> FeatureCount]
                r == StartupReference(a_env, m)
            IN  /\ model' = Some(m)
                /\ dq_checker' = TRUE
                /\ ref_data' = r
                /\ IF a_env.DRIFT_ENABLED
                   THEN IF MMDDriftRaises(r)
                        THEN a_pc' = "failed" /\ UNCHANGED cd
                        ELSE a_pc' = "serving" /\ cd' = MMDDrift(r)
                   ELSE a_pc' = "serving" /\ UNCHANGED cd
    /\ UNCHANGED <<a_env, drift_events, drift_responses, request_count, received,
                   req, resp>>

\* the request bodies: req.data, a list of lists of floats
RequestTables ==
    {Array(shape, "float64", Num(0), [row |-> 0, col |-> 0, val |-> val]) :
        shape \in {<<1, FeatureCount>>, <<2, FeatureCount>>, <<1, FeatureCount - 1>>},
        val \in {Num(0), Num(15), NaN}}

RequestData ==
    {[kind |-> "table", array |-> t] : t \in RequestTables}
        \cup {[kind |-> "empty", array |-> NoArray],
              [kind |-> "ragged", array |-> Array(<<2>>, "object", Lst, NoOdd(Lst))]}

\* scipy's answers, the same for every column of the reference
UniformLibs(n, env) ==
    {[ks |-> [i \in 1..n |-> k], ad |-> [i \in 1..n |-> a],
      ks_empty_raises |-> env.ks_empty_raises] :
        k \in KsAnswers, a \in AdAnswers}

\* what the collaborators answer during one request: the classifier's label,
\* the MMD detector's is_drift, scipy's test results
RequestOracles ==
    [label : {0, 1}, is_drift : {0, 1},
     lib : UniformLibs(IF ref_data = None THEN 1 ELSE ref_data[1].shape[2], a_env)]

\* a POST /predict arrives and its body parses as PredictRequest
ReceiveRequest ==
    /\ a_pc = "serving"
    /\ received < MaxRequests
    /\ \E data \in RequestData, o \in RequestOracles :
           req' = Some([data |-> data, o |-> o])
    /\ received' = received + 1
    /\ a_pc' = "handling"
    /\ UNCHANGED <<a_env, model, ref_data, cd, dq_checker, drift_events, drift_responses,
                   request_count, resp>>

AppGlobals == [model |-> model, ref_data |-> ref_data, cd |-> cd, dq_checker |-> dq_checker]

\* the /predict handler runs
Predict ==
    /\ a_pc = "handling"
    /\ LET out == predict(req[1].data, req[1].o, AppGlobals, a_env) IN
       /\ resp' = Some(out)
       /\ drift_events' = drift_events + out.events
       /\ drift_responses' =
              drift_responses + (IF out.status = 200 /\ out.drift THEN 1 ELSE 0)
       /\ request_count' = [request_count EXCEPT ![200] = @ + out.count200,
                                                 ![500] = @ + out.count500]
    /\ a_pc' = "responded"
    /\ UNCHANGED <<a_env, model, ref_data, cd, dq_checker, received, req>>

\* the response has been sent; the request's objects are gone
RequestDone ==
    /\ a_pc = "responded"
    /\ req' = None
    /\ resp' = None
    /\ a_pc' = "serving"
    /\ UNCHANGED <<a_env, model, ref_data, cd, dq_checker, drift_events, drift_responses,
                   request_count, received>>

InitApp == AppInit /\ DriftIdle /\ ValidIdle /\ StoreIdle /\ TrainIdle

NextApp ==
    \/ LoadModel /\ UNCHANGED <<driftVars, validVars, storeVars, trainVars>>
    \/ ReceiveRequest /\ UNCHANGED <<driftVars, validVars, storeVars, trainVars>>
    \/ Predict /\ UNCHANGED <<driftVars, validVars, storeVars, trainVars>>
    \/ RequestDone /\ UNCHANGED <<driftVars, validVars, storeVars, trainVars>>

SpecApp == InitApp /\ [][NextApp]_vars

\* the array the handler built from the request body (when numpy built one)
RequestArray == np_array(req[1].data, a_env)

C8_ReferenceAlwaysPresent ==
    a_pc \in {"serving", "handling", "responded"} =>
        ref_data # None /\ ref_data[1].shape[1] > 0

\* with no stored file the synthetic sample of the model's width is used
FallbackWhenFileMissing ==
    (a_pc = "serving" /\ ref_data_path \notin DOMAIN a_env.files) =>
        ref_data = Some(SyntheticReference(FeatureCount))

\* model.predict returned for the request being answered
ModelPredictSucceeded ==
    /\ a_pc = "responded"
    /\ RequestArray # None
    /\ model_predict(model[1], RequestArray[1], req[1].o.label) # None

\* the MMD detector is consulted and raises on the request's batch
MMDCheckRaises ==
    /\ a_env.DRIFT_ENABLED /\ cd # None
    /\ cd_predict(cd[1], RequestArray[1], req[1].o.is_drift) = None

\* C12: a failure of drift detection never fails a /predict request.  Once
\* model.predict has succeeded, an error raised by the statistical detector or
\* by the MMD detector counts as no drift for that check, and the request is
\* answered 200 with the predictions.
C12_DriftFailureNeverFailsRequest ==
    ModelPredictSucceeded =>
        /\ resp[1].status = 200
        /\ resp[1].predictions =
               model_predict(model[1], RequestArray[1], req[1].o.label)
        /\ MMDCheckRaises =>
               resp[1].drift = detect_data_drift(ref_data[1], RequestArray[1],
                                                 req[1].o.lib).drift_detected

\* the statistical detector alone keeps the promise: where the MMD detector is
\* not consulted, a request whose prediction succeeded is answered 200, and an
\* error inside detect_data_drift leaves drift = false
StatisticalFailureNeverFailsRequest ==
    (ModelPredictSucceeded /\ ~(a_env.DRIFT_ENABLED /\ cd # None)) =>
        /\ resp[1].status = 200
        /\ resp[1].predictions # None
        /\ (ref_data # None /\ dq_checker
              /\ DriftTry(ref_data[1], RequestArray[1], req[1].o.lib).raised)
             => ~resp[1].drift

\* C14: across any sequence of /predict requests, drift_events_total equals
\* the number of responses that carried drift = true: one increment per
\* request whose drift flag is true, also when both detectors report drift.
C14_CounterEqualsDriftResponses ==
    drift_events = drift_responses

\* the counter never falls behind: every response with drift = true was counted
CounterAtLeastDriftResponses ==
    /\ drift_events >= drift_responses
    /\ drift_events <= 2 * drift_responses

----------------------------------------------------------------------------
(* Specification of a training run: train.main on the generated dataset      *)

\* the generated dataset: 2000 rows of 4 floats
TrainTables ==
    {Array(<<TrainSamples, TrainFeatures>>, "float64", fill,
           [row |-> r, col |-> c, val |-> val]) :
        fill \in {Num(0), Num(1)}, r \in {0, TrainSamples - 1},
        c \in {0, TrainFeatures - 1}, val \in {Num(0), Num(0 - 3), Num(3)}}

\* OUT_DIR: os.makedirs(OUT_DIR, exist_ok=True) succeeded when the module was
\* imported, so it names a directory
TrainOutDirs == {<<"model">>, <<"out", "model">>}

TrainOutputs(out_dir) ==
    {ModelFile(out_dir), VersionFile(out_dir), REFERENCE_DATA_PATH(out_dir),
     MetricsFile(out_dir)}

\* what an earlier run left in OUT_DIR
TrainInit ==
    /\ t_pc = "call"
    /\ t_X \in TrainTables
    /\ t_out_dir \in {Some(d) : d \in TrainOutDirs}
    /\ \E old \in SUBSET TrainOutputs(t_out_dir[1]) :
           t_files = [p \in old |-> Written("old")]
    /\ t_out = TrainRun("none", <<>>, [x \in {} |-> 0])

\* python model/train.py
TrainMain ==
    /\ t_pc = "call"
    /\ t_out' = main(t_X, Some(TrainSamples), t_out_dir[1], t_files)
    /\ t_pc' = "done"
    /\ UNCHANGED <<t_X, t_out_dir, t_files>>

InitTrain == TrainInit /\ DriftIdle /\ ValidIdle /\ StoreIdle /\ AppIdle

NextTrain == TrainMain /\ UNCHANGED <<driftVars, validVars, storeVars, appVars>>

SpecTrain == InitTrain /\ [][NextTrain]_vars

\* position of a file in the order of writes (0: not written)
WriteIndex(writes, path) ==
    IF \E k \in 1..Len(writes) : writes[k] = path
    THEN CHOOSE k \in 1..Len(writes) : writes[k] = path
    ELSE 0

\* the run obeys the order for the validator's answer `quality`
ReferenceFollowsValidation(run, quality, out_dir, files) ==
    LET ref == WriteIndex(run.writes, REFERENCE_DATA_PATH(out_dir)) IN
    /\ ref > 0 <=> quality = "True"
    /\ ref > 0 =>
          /\ WriteIndex(run.writes, ModelFile(out_dir)) \in 1..(ref - 1)
          /\ WriteIndex(run.writes, VersionFile(out_dir)) \in 1..(ref - 1)
          /\ run.files[REFERENCE_DATA_PATH(out_dir)].kind = "npy"
    /\ quality # "True" =>
          /\ run.returned = "False"
          /\ run.writes = <<>>
          /\ run.files = files

\* C13: in a training run the reference sample is saved if and only if the
\* data-quality validation passed, and only after the model and the version
\* files were written; when validation fails main returns False and has
\* written no model, version, reference or metrics file.  Checked on the run
\* that happened and on main continued from either answer of the validator.
C13_ReferenceSavedIffValidationPassed ==
    t_pc = "done" =>
        /\ ReferenceFollowsValidation(
               t_out, validate_training_data(t_X, Some(TrainSamples)),
               t_out_dir[1], t_files)
        /\ \A quality \in {"True", "False"} :
               ReferenceFollowsValidation(
                   MainFrom(quality, t_X, t_out_dir[1], t_files), quality,
                   t_out_dir[1], t_files)

\* a run whose validation failed beside the files of an earlier run: it
\* returned False and the four files are as they were
C13_Witness ==
    /\ t_pc = "done"
    /\ validate_training_data(t_X, Some(TrainSamples)) = "False"
    /\ t_out.returned = "False"
    /\ t_out.writes = <<>>
    /\ DOMAIN t_out.files = TrainOutputs(t_out_dir[1])
    /\ \A p \in DOMAIN t_out.files : t_out.files[p].kind = "old"

\* the validator passes no generated dataset: the target column is not in the
\* expected column list
TrainingNeverPassesValidation ==
    t_pc = "done" => t_out.returned = "False"
====
